---- MODULE Spec2Model ----
(***************************************************************************)
(* Model of bzt/modules/reporting.py: the JUnitXMLWriter element writer    *)
(* and the JUnitXMLReporter that drives it (label-breakdown and pass/fail  *)
(* data sources), with the temporary file and the final report path.       *)
(*                                                                         *)
(* Python strings are sequences of one-character strings, so that          *)
(* urlparse, str.replace, sorted() and string comparison are computed.     *)
(* Formatted text (str.format / % templates) is a sequence of segments,    *)
(* each a template name with its arguments; concatenation of formatted     *)
(* text is sequence concatenation.                                         *)
(***************************************************************************)
EXTENDS Integers, Sequences, FiniteSets, TLC

(* ---------------------------------------------------------------------- *)
(* Bounds of the model                                                     *)
(* ---------------------------------------------------------------------- *)
MaxLabels == 3
MaxCrit == 2
MaxOps == 4

(* ---------------------------------------------------------------------- *)
(* Python string primitives                                                *)
(* ---------------------------------------------------------------------- *)

\* Characters in ascending code point order (the order of str comparison).
CharOrder ==
    << " ", "#", "%", "+", "-", ".", "/", "0", "1", "2", "3", "4", "5", "6", "7", "8",
       "9", ":", ";", "<", "=", ">", "?", "_", "a", "b", "c", "d", "e", "f",
       "g", "h", "i", "j", "k", "l", "m", "n", "o", "p", "q", "r", "s", "t",
       "u", "v", "w", "x", "y", "z" >>

Ord(c) == CHOOSE i \in 1..Len(CharOrder) : CharOrder[i] = c

Digits == <<"0", "1", "2", "3", "4", "5", "6", "7", "8", "9">>

IsDigit(c) == \E i \in 1..Len(Digits) : Digits[i] = c

IsLetter(c) == Ord(c) >= Ord("a") /\ Ord(c) <= Ord("z")

\* str < str : lexicographic by code point, a proper prefix is smaller.
RECURSIVE StrLess(_, _)
StrLess(s, t) ==
    IF t = <<>> THEN FALSE
    ELSE IF s = <<>> THEN TRUE
    ELSE IF Head(s) = Head(t) THEN StrLess(Tail(s), Tail(t))
    ELSE Ord(Head(s)) < Ord(Head(t))

\* str(n) for an integer n >= 0.
RECURSIVE IntToStr(_)
IntToStr(n) ==
    IF n < 10 THEN <<Digits[n + 1]>>
    ELSE IntToStr(n \div 10) \o <<Digits[(n % 10) + 1]>>

\* s.find(c, start) with 1-based positions; 0 when c does not occur.
RECURSIVE Find(_, _, _)
Find(s, c, start) ==
    IF start > Len(s) THEN 0
    ELSE IF s[start] = c THEN start
    ELSE Find(s, c, start + 1)

\* s.rfind(c): the last position of c, 0 when c does not occur.
RECURSIVE RFind(_, _, _)
RFind(s, c, pos) ==
    IF pos < 1 THEN 0
    ELSE IF s[pos] = c THEN pos
    ELSE RFind(s, c, pos - 1)

\* s[i:] and s[:i] for 1-based i (the suffix from i, the prefix before i).
From(s, i) == SubSeq(s, i, Len(s))

Before(s, i) == SubSeq(s, 1, i - 1)

\* s.replace(".", "_")
Replace(s) == [i \in 1..Len(s) |-> IF s[i] = "." THEN "_" ELSE s[i]]

\* ".".join(parts)
RECURSIVE Join(_)
Join(parts) ==
    IF parts = <<>> THEN <<>>
    ELSE IF Len(parts) = 1 THEN parts[1]
    ELSE parts[1] \o <<".">> \o Join(Tail(parts))

\* The keys left in the order the mapping yields them.
Unsorted(keys) == keys

\* sorted(keys): insertion of each key into the sorted rest.
RECURSIVE InsertSorted(_, _)
InsertSorted(k, s) ==
    IF s = <<>> THEN <<k>>
    ELSE IF StrLess(Head(s), k) THEN <<Head(s)>> \o InsertSorted(k, Tail(s))
    ELSE <<k>> \o s

RECURSIVE Sorted(_)
Sorted(keys) ==
    IF keys = <<>> THEN <<>>
    ELSE InsertSorted(Head(keys), Sorted(Tail(keys)))

(* ---------------------------------------------------------------------- *)
(* urlparse (the standard library's, as called at line 277)                *)
(* ---------------------------------------------------------------------- *)

\* scheme_chars: letters, digits and "+-." (lower case letters here).
IsSchemeChar(c) == IsLetter(c) \/ IsDigit(c) \/ c \in {"+", "-", "."}

\* The scheme and the rest: "scheme:" at the front when every character
\* before the first colon is a scheme character and the rest is not a port.
SplitScheme(url) ==
    LET i == Find(url, ":", 1)
        rest == From(url, i + 1)
    IN  IF i > 1
           /\ (\A j \in 1..(i - 1) : IsSchemeChar(url[j]))
           /\ (rest = <<>> \/ (\E r \in 1..Len(rest) : ~IsDigit(rest[r])))
        THEN [scheme |-> Before(url, i), rest |-> rest]
        ELSE [scheme |-> <<>>, rest |-> url]

\* The first position >= start of one of "/", "?", "#", or Len(s)+1.
RECURSIVE NetlocEnd(_, _)
NetlocEnd(s, start) ==
    IF start > Len(s) THEN Len(s) + 1
    ELSE IF s[start] \in {"/", "?", "#"} THEN start
    ELSE NetlocEnd(s, start + 1)

\* url[:2] == '//' : the netloc runs up to the next "/", "?" or "#".
SplitNetloc(url) ==
    IF Len(url) >= 2 /\ url[1] = "/" /\ url[2] = "/"
    THEN [netloc |-> SubSeq(url, 3, NetlocEnd(url, 3) - 1),
          rest |-> From(url, NetlocEnd(url, 3))]
    ELSE [netloc |-> <<>>, rest |-> url]

\* url.split(c, 1) when c occurs in url: what is before and after the first c.
SplitAt(url, at) ==
    IF at > 0 THEN [rest |-> Before(url, at), cut |-> From(url, at + 1)]
    ELSE [rest |-> url, cut |-> <<>>]

\* uses_params: the schemes whose path may carry ";params".
UsesParams == { <<>>, <<"h", "t", "t", "p">>, <<"f", "t", "p">> }

\* _splitparams: the first ";" of the last path segment.
SplitParams(scheme, url) ==
    IF scheme \in UsesParams
    THEN SplitAt(url, Find(url, ";", IF RFind(url, "/", Len(url)) > 0
                                     THEN RFind(url, "/", Len(url)) ELSE 1))
    ELSE SplitAt(url, 0)

ParseResult(scheme, netloc, path_params, query, fragment) ==
    [scheme |-> scheme, netloc |-> netloc, path |-> path_params.rest,
     params |-> path_params.cut, query |-> query, fragment |-> fragment]

ParseQuery(scheme, netloc, query_split, fragment) ==
    ParseResult(scheme, netloc, SplitParams(scheme, query_split.rest),
                query_split.cut, fragment)

ParseFragment(scheme, netloc, fragment_split) ==
    ParseQuery(scheme, netloc,
               SplitAt(fragment_split.rest, Find(fragment_split.rest, "?", 1)),
               fragment_split.cut)

ParseNetloc(scheme, netloc_split) ==
    ParseFragment(scheme, netloc_split.netloc,
                  SplitAt(netloc_split.rest, Find(netloc_split.rest, "#", 1)))

ParseScheme(scheme_split) ==
    ParseNetloc(scheme_split.scheme, SplitNetloc(scheme_split.rest))

\* urlparse: scheme, netloc, then fragment, query and params cut off the path.
urlparse(url) == ParseScheme(SplitScheme(url))

\* __convert_label_name taking every label for a URL.
convert_label_name_always_url(url) ==
    [class_name |-> urlparse(url).scheme \o <<".">> \o Replace(urlparse(url).netloc),
     resource_name |-> Join(<< Replace(urlparse(url).path), Replace(urlparse(url).params),
                               Replace(urlparse(url).query),
                               Replace(urlparse(url).fragment) >>)]

\* JUnitXMLReporter.__convert_label_name
convert_label_name(url) ==
    LET parsed_url == urlparse(url)
    IN  IF parsed_url.scheme # <<>>
        THEN [class_name |-> parsed_url.scheme \o <<".">> \o Replace(parsed_url.netloc),
              resource_name |-> Join(<< Replace(parsed_url.path),
                                        Replace(parsed_url.params),
                                        Replace(parsed_url.query),
                                        Replace(parsed_url.fragment) >>)]
        ELSE [class_name |-> url, resource_name |-> url]

(* ---------------------------------------------------------------------- *)
(* Input data: KPISet records, DataPoints, pass/fail reporters             *)
(* ---------------------------------------------------------------------- *)

S_500 == <<"5", "0", "0">>
S_404 == <<"4", "0", "4">>
S_err == <<"e", "r", "r">>
S_a == <<"a">>
S_b == <<"b">>
S_bzt == <<"b", "z", "t">>
S_url == <<"h", "t", "t", "p", ":", "/", "/", "x", ".", "y", "/", "p", ".", "q">>
S_url2 == <<"h", "t", "t", "p", ":", "/", "/", "x", ".", "y", "/", "r">>
S_summary_report == <<"s", "u", "m", "m", "a", "r", "y", "_", "r", "e", "p", "o", "r", "t">>
S_sample_labels == <<"s", "a", "m", "p", "l", "e", "_", "l", "a", "b", "e", "l", "s">>
S_pass_fail == <<"t", "a", "u", "r", "u", "s", "_", "j", "u", "n", "i", "t", "x", "m", "l",
                 "_", "p", "a", "s", "s", "_", "f", "a", "i", "l">>
S_error_statistics == <<"e", "r", "r", "o", "r", " ", "s", "t", "a", "t", "i", "s", "t", "i",
                        "c", "s", ":">>
S_http_error == <<"h", "t", "t", "p", " ", "e", "r", "r", "o", "r">>
S_triggered == <<"p", "a", "s", "s", "/", "f", "a", "i", "l", " ", "c", "r", "i", "t", "e",
                 "r", "i", "a", " ", "t", "r", "i", "g", "g", "e", "r", "e", "d">>

\* An entry of KPISet.ERRORS: rc, msg, cnt and the urls Counter (url, count
\* pairs in the order items() yields them).
Error(rc, cnt, urls) == [rc |-> rc, msg |-> S_err, cnt |-> cnt, urls |-> urls]

KPISet(succ, fail, errors) ==
    [succ |-> succ, throughput |-> succ + fail, fail |-> fail, errors |-> errors]

\* The (label, KPISet) pairs that snapshots are built from.
Entries ==
    { [label |-> <<>>,
       kpi |-> KPISet(6, 4, << Error(S_500, 3, << <<S_url, 1>>, <<S_url2, 2>> >>),
                               Error(S_404, 1, << <<S_url, 1>> >>) >>)],
      [label |-> <<>>, kpi |-> KPISet(1, 0, <<>>)],
      [label |-> S_a, kpi |-> KPISet(1, 0, <<>>)],
      [label |-> S_b, kpi |-> KPISet(0, 1, << Error(S_500, 1, <<>>) >>)],
      [label |-> S_bzt, kpi |-> KPISet(1, 2, << Error(S_500, 1, <<>>),
                                                Error(S_404, 1, <<>>) >>)],
      [label |-> S_url, kpi |-> KPISet(2, 1, << Error(S_404, 1, <<>>) >>)] }

\* dict.keys() of a cumulative mapping held in insertion order.
Keys(cum) == [i \in 1..Len(cum) |-> cum[i].label]

HasKey(cum, key) == \E i \in 1..Len(cum) : cum[i].label = key

\* cum[key]
Get(cum, key) == (CHOOSE e \in {cum[i] : i \in 1..Len(cum)} : e.label = key).kpi

\* Cumulative mappings of at most n labels, in every insertion order.
RECURSIVE Cumulatives(_)
Cumulatives(n) ==
    IF n = 0 THEN {<<>>}
    ELSE LET shorter == Cumulatives(n - 1)
             longest == {c \in shorter : Len(c) = n - 1}
         IN  shorter \cup
             { Append(p[1], p[2]) :
                 p \in {q \in longest \X Entries : ~HasKey(q[1], q[2].label)} }

\* DataPoint: None, or a snapshot holding DataPoint.CUMULATIVE.
None == [set |-> FALSE, cumulative |-> <<>>]

DataPoint(cum) == [set |-> TRUE, cumulative |-> cum]

DataPoints == { DataPoint(c) : c \in Cumulatives(MaxLabels) }

\* A pass/fail criterion: its flags and its config.
Criterion(trig, fail, label, timeframe) ==
    [is_triggered |-> trig, fail |-> fail,
     config |-> [subject |-> <<"r", "t">>, label |-> label, condition |-> <<">">>,
                 threshold |-> <<"1">>, timeframe |-> timeframe]]

Criteria ==
    { Criterion(TRUE, TRUE, <<>>, <<>>),
      Criterion(TRUE, FALSE, S_a, <<>>),
      Criterion(FALSE, TRUE, <<>>, <<"5", "s">>),
      Criterion(FALSE, FALSE, S_a, <<"5", "s">>) }

RECURSIVE CriteriaSeqs(_)
CriteriaSeqs(n) ==
    IF n = 0 THEN {<<>>}
    ELSE LET shorter == CriteriaSeqs(n - 1)
         IN  shorter \cup { Append(c, x) : c \in {d \in shorter : Len(d) = n - 1},
                                           x \in Criteria }

\* A reporter of the engine: a PassFailStatus with its criterias, or another
\* kind of reporter (the JUnitXMLReporter itself is one of engine.reporters).
PassFailStatus(criterias) == [class |-> "PassFailStatus", criterias |-> criterias]

OtherReporter == [class |-> "JUnitXMLReporter", criterias |-> <<>>]

\* engine.reporters: this reporter and two pass/fail evaluators that share
\* at most MaxCrit criteria between them (either may have none).
ReporterLists ==
    UNION { { << PassFailStatus(SubSeq(c, 1, k)), OtherReporter,
                 PassFailStatus(SubSeq(c, k + 1, Len(c))) >> : k \in 0..Len(c) } :
            c \in CriteriaSeqs(MaxCrit) }

\* The values of the data-source option.
DataSources == {"sample-labels", "pass-fail", "other"}

(* ---------------------------------------------------------------------- *)
(* JUnitXMLWriter                                                          *)
(* ---------------------------------------------------------------------- *)

\* What one or more fds.write() calls put into the file: the header, an
\* open tag with its attributes, text, or a close tag.
Token(k, name, attrs, text) == [k |-> k, name |-> name, attrs |-> attrs, text |-> text]

OpenTag(name, attrs) == Token("open", name, attrs, <<>>)

CloseTag(name) == Token("close", name, {}, <<>>)

Text(data) == Token("text", "", {}, data)

\* One piece of formatted text: the template and its arguments.
Segment(tpl, args) == [tpl |-> tpl, args |-> args]

\* JUnitXMLWriter.write_header
write_header(w) ==
    [w EXCEPT !.fds = Append(@, Token("header", "xml", {}, <<>>))]

\* JUnitXMLWriter.__init__
JUnitXMLWriter == write_header([fds |-> <<>>, endings |-> <<>>])

\* An add_element that leaves its close tag pending even when it wrote it.
add_element_always_pending(w, element_name, text, close, kwargs) ==
    [fds |-> Append(w.fds, OpenTag(element_name, kwargs))
               \o (IF text # <<>> THEN << Text(text) >> ELSE <<>>)
               \o (IF close THEN << CloseTag(element_name) >> ELSE <<>>),
     endings |-> Append(w.endings, CloseTag(element_name))]

\* JUnitXMLWriter.add_element
add_element(w, element_name, text, close, kwargs) ==
    LET opened == Append(w.fds, OpenTag(element_name, kwargs))
        texted == IF text # <<>> THEN Append(opened, Text(text)) ELSE opened
    IN  IF close
        THEN [w EXCEPT !.fds = Append(texted, CloseTag(element_name))]
        ELSE [w EXCEPT !.fds = texted,
                       !.endings = Append(@, CloseTag(element_name))]

add_testsuite(w, close, kwargs) == add_element(w, "testsuite", <<>>, close, kwargs)

add_testcase(w, close, kwargs) == add_element(w, "testcase", <<>>, close, kwargs)

add_error(w, close, kwargs) == add_element(w, "error", <<>>, close, kwargs)

\* close_element taking the oldest pending close tag instead of the newest.
close_element_fifo(w) ==
    IF w.endings # <<>>
    THEN [fds |-> Append(w.fds, w.endings[1]), endings |-> Tail(w.endings)]
    ELSE w

\* JUnitXMLWriter.close_element: endings.pop() is written when endings is
\* not empty; otherwise the call does nothing and returns.
close_element(w) ==
    IF w.endings # <<>>
    THEN [fds |-> Append(w.fds, w.endings[Len(w.endings)]),
          endings |-> SubSeq(w.endings, 1, Len(w.endings) - 1)]
    ELSE w

\* JUnitXMLWriter.raw_write
raw_write(w, data) == [w EXCEPT !.fds = Append(@, Text(data))]

(* ---------------------------------------------------------------------- *)
(* JUnitXMLReporter: pure parts                                            *)
(* ---------------------------------------------------------------------- *)

\* The number of urls, whatever their counts.
CountUrls(urls) == Len(urls)

\* JUnitXMLReporter.count_errors
RECURSIVE SumCounts(_)
SumCounts(urls) ==
    IF urls = <<>> THEN 0 ELSE Head(urls)[2] + SumCounts(Tail(urls))

RECURSIVE count_errors_from(_)
count_errors_from(errors) ==
    IF errors = <<>> THEN 0
    ELSE SumCounts(Head(errors).urls) + count_errors_from(Tail(errors))

count_errors(summary_kpi_set) == count_errors_from(summary_kpi_set.errors)

\* The summary line of write_summary_report (lines 228-233).
summary_report(summary_kpiset) ==
    << Segment("Success: {}, Sample count: {}, Failures: {}, Errors: {}\n",
               << IntToStr(summary_kpiset.succ), IntToStr(summary_kpiset.throughput),
                  IntToStr(summary_kpiset.fail),
                  IntToStr(count_errors(summary_kpiset)) >>) >>

\* The templates of write_errors (lines 259-260), formatted.
err_line(error) ==
    << Segment("Error code: {}, Message: {}, count: {}\n",
               <<error.rc, error.msg, IntToStr(error.cnt)>>) >>

url_err_line(url, cnt) ==
    << Segment("URL: {}, Error count {}\n", <<url, IntToStr(cnt)>>) >>

\* err_desc of process_sample_labels (line 189).
err_desc(er_dict) ==
    << Segment("total errors of this type:{}", <<IntToStr(er_dict.cnt)>>) >>

\* An etree element.
Element(tag, attrs, children) == [tag |-> tag, attrs |-> attrs, children |-> children]

NoElement == Element("", {}, <<>>)

\* The classname of a criterion's testcase (lines 340-351).
criterion_classname(fc_obj) ==
    LET cfg == fc_obj.config
        base == IF cfg.label # <<>>
                THEN cfg.subject \o <<" ", "o", "f", " ">> \o cfg.label
                     \o cfg.condition \o cfg.threshold
                ELSE cfg.subject \o cfg.condition \o cfg.threshold
    IN  IF cfg.timeframe # <<>>
        THEN base \o <<" ", "f", "o", "r", " ">> \o cfg.timeframe
        ELSE base

\* The criteria flattened with the later reporters' criteria first.
RECURSIVE flatten_criterias_later_first(_)
flatten_criterias_later_first(reps) ==
    IF reps = <<>> THEN <<>>
    ELSE flatten_criterias_later_first(Tail(reps))
         \o (IF Head(reps).class = "PassFailStatus" THEN Head(reps).criterias ELSE <<>>)

\* The criteria of all PassFailStatus reporters, flattened (lines 327-332).
RECURSIVE flatten_criterias(_)
flatten_criterias(reps) ==
    IF reps = <<>> THEN <<>>
    ELSE (IF Head(reps).class = "PassFailStatus" /\ Head(reps).criterias # <<>>
          THEN Head(reps).criterias ELSE <<>>)
         \o flatten_criterias(Tail(reps))

\* A criterion counted as failed as soon as it is triggered.
is_failure_triggered_only(x) == x.is_triggered

is_failure(x) == x.is_triggered /\ x.fail

\* The testcase element of one criterion (lines 353-356).
criterion_testcase(fc_obj) ==
    Element("testcase", { <<"classname", criterion_classname(fc_obj)>>, <<"name", <<>> >> },
            IF fc_obj.is_triggered /\ fc_obj.fail
            THEN << Element("error", { <<"type", S_triggered>>, <<"message", <<>> >> }, <<>>) >>
            ELSE <<>>)

\* JUnitXMLReporter.__process_pass_fail
process_pass_fail(reps) ==
    LET fail_criterias == flatten_criterias(reps)
        failures == SelectSeq(fail_criterias, is_failure)
    IN  Element("testsuite",
                { <<"name", S_pass_fail>>, <<"tests", IntToStr(Len(fail_criterias))>>,
                  <<"failures", IntToStr(Len(failures))>>, <<"skip", <<"0">> >> },
                [i \in 1..Len(fail_criterias) |-> criterion_testcase(fail_criterias[i])])

(* ---------------------------------------------------------------------- *)
(* State                                                                   *)
(* ---------------------------------------------------------------------- *)

VARIABLES
    last_second,       \* JUnitXMLReporter.last_second
    report_file,       \* the file at report_file_path: [exists, content]
    prior_file,        \* what report_file_path held before post_process
    tmp_xml_file,      \* the NamedTemporaryFile: [exists, open]
    xml_writer,        \* the JUnitXMLWriter: [fds (what was written), endings]
    pc,                \* the statement post_process is at
    raised,            \* the exception that reached the caller, or "none"
    test_data_source,  \* the data-source option read by post_process
    reporters,         \* engine.reporters read by __process_pass_fail
    root_xml_element,  \* the element __process_pass_fail returned
    key_i,             \* position of `key` in sorted(kpiset.keys())
    er_i,              \* position of `er_dict` in the label's errors
    error_i,           \* position of `error` in write_errors
    url_i,             \* position of the url within error["urls"].items()
    urls_err_string,   \* urls_err_string of write_errors
    calls,             \* writer calls made: [opened, closed, total]
    last_call,         \* the last writer method called and what it met
    last_sec,          \* FinalStatus.last_sec
    parameters,        \* the options FinalStatus.post_process read
    log,               \* what was given to self.log, in order
    delivered,         \* the last snapshot handed to aggregated_second
    overwrote          \* an earlier snapshot differed from the last one

vars == << last_second, report_file, prior_file, tmp_xml_file, xml_writer, pc, raised,
           test_data_source, reporters, root_xml_element, key_i, er_i, error_i,
           url_i, urls_err_string, calls, last_call, last_sec, parameters, log,
           delivered, overwrote >>

\* What the final path may hold before the run: nothing, or an older report.
PriorContent == << Token("header", "old", {}, <<>>) >>

Absent == [exists |-> FALSE, content |-> <<>>]

NoCalls == [opened |-> 0, closed |-> 0, total |-> 0]

NoCall == [method |-> "none", endings_before |-> 0]

Call(method) == [method |-> method, endings_before |-> Len(xml_writer.endings)]

Counted(method, close) ==
    [opened |-> calls.opened + (IF method = "add_element" /\ ~close THEN 1 ELSE 0),
     closed |-> calls.closed + (IF method = "close_element" THEN 1 ELSE 0),
     total |-> calls.total + 1]

\* The options of FinalStatus before post_process has read them.
NoParameters ==
    [read |-> FALSE, test_duration |-> FALSE, summary |-> FALSE, percentiles |-> FALSE,
     failed_labels |-> FALSE]

\* JUnitXMLReporter.__init__ ; the final path is absent or holds an old file.
Init ==
    /\ last_second = None
    /\ report_file \in {Absent, [exists |-> TRUE, content |-> PriorContent]}
    /\ prior_file = report_file
    /\ tmp_xml_file = [exists |-> FALSE, open |-> FALSE]
    /\ xml_writer = [fds |-> <<>>, endings |-> <<>>]
    /\ pc = "idle"
    /\ raised = "none"
    /\ test_data_source = "unread"
    /\ reporters = <<>>
    /\ root_xml_element = NoElement
    /\ key_i = 0
    /\ er_i = 0
    /\ error_i = 0
    /\ url_i = 0
    /\ urls_err_string = <<>>
    /\ calls = NoCalls
    /\ last_call = NoCall
    /\ last_sec = None
    /\ parameters = NoParameters
    /\ log = <<>>
    /\ delivered = None
    /\ overwrote = FALSE

\* The variables only the label-breakdown builder changes.
builder_vars == << tmp_xml_file, xml_writer, key_i, er_i, error_i, url_i,
                   urls_err_string, calls, last_call >>

loop_vars == << key_i, er_i, error_i, url_i, urls_err_string >>

\* FinalStatus and the log.
final_status_vars == << last_sec, parameters, log >>

\* What is remembered of the snapshots delivered.
history_vars == << delivered, overwrote >>

input_vars == << last_second, prior_file, test_data_source, reporters, root_xml_element,
                 final_status_vars, history_vars >>

kpiset == last_second.cumulative

summary_kpiset == Get(kpiset, <<>>)

sorted_keys == Sorted(Keys(kpiset))

(* ---------------------------------------------------------------------- *)
(* JUnitXMLReporter: handlers                                              *)
(* ---------------------------------------------------------------------- *)

\* A handler that keeps the first snapshot it was given.
aggregated_second_keeping_first(data) ==
    /\ pc = "idle"
    /\ last_second' = IF last_second.set THEN last_second ELSE data
    /\ UNCHANGED << report_file, prior_file, pc, raised, test_data_source, reporters,
                    root_xml_element, builder_vars, final_status_vars >>

\* JUnitXMLReporter.aggregated_second
aggregated_second(data) ==
    /\ pc = "idle"
    /\ last_second' = data
    /\ UNCHANGED << report_file, prior_file, pc, raised, test_data_source, reporters,
                    root_xml_element, builder_vars, final_status_vars >>

\* A snapshot is handed to aggregated_second: what was delivered is remembered.
delivery(data) ==
    /\ delivered' = data
    /\ overwrote' = (overwrote \/ (delivered.set /\ delivered # data))

\* A post_process that builds the label document for any data-source value
\* other than the two it knows.
post_process_skip_to_labels(source) ==
    /\ pc = "idle"
    /\ ~last_second.set \/ source \notin {"sample-labels", "pass-fail"}
    /\ test_data_source' = source
    /\ pc' = IF last_second.set THEN "NamedTemporaryFile" ELSE "done"
    /\ UNCHANGED << last_second, report_file, prior_file, raised, reporters,
                    root_xml_element, builder_vars, final_status_vars, history_vars >>

\* post_process when there is no snapshot, or the data-source option names
\* neither builder: nothing is done.
post_process_skip(source) ==
    /\ pc = "idle"
    /\ ~last_second.set \/ source \notin {"sample-labels", "pass-fail"}
    /\ test_data_source' = source
    /\ pc' = "done"
    /\ UNCHANGED << last_second, report_file, prior_file, raised, reporters,
                    root_xml_element, builder_vars, final_status_vars, history_vars >>

\* post_process entering process_sample_labels without testing last_second.
post_process_sample_labels_unguarded ==
    /\ pc = "idle"
    /\ test_data_source' = "sample-labels"
    /\ pc' = "NamedTemporaryFile"
    /\ UNCHANGED << last_second, report_file, prior_file, raised, reporters,
                    root_xml_element, builder_vars, final_status_vars, history_vars >>

\* post_process, data-source sample-labels: process_sample_labels is entered.
post_process_sample_labels ==
    /\ pc = "idle"
    /\ last_second.set
    /\ test_data_source' = "sample-labels"
    /\ pc' = "NamedTemporaryFile"
    /\ UNCHANGED << last_second, report_file, prior_file, raised, reporters,
                    root_xml_element, builder_vars, final_status_vars, history_vars >>

\* post_process, data-source pass-fail: the element tree is built, then
\* self.__save_report is looked up; the class defines no such method (its
\* definition is commented out), so AttributeError reaches the caller.
post_process_pass_fail(engine_reporters) ==
    /\ pc = "idle"
    /\ last_second.set
    /\ test_data_source' = "pass-fail"
    /\ reporters' = engine_reporters
    /\ root_xml_element' = process_pass_fail(engine_reporters)
    /\ raised' = "AttributeError"
    /\ pc' = "done"
    /\ UNCHANGED << last_second, report_file, prior_file, builder_vars,
                    final_status_vars, history_vars >>

\* One call of a writer method from the builder: the writer becomes w, and
\* the builder goes on at `next`.
writer_call(method, close, w, next) ==
    /\ xml_writer' = w
    /\ calls' = Counted(method, close)
    /\ last_call' = Call(method)
    /\ pc' = next
    /\ UNCHANGED << report_file, tmp_xml_file, raised, input_vars >>

\* Leaving the `with NamedTemporaryFile(...)` block of process_sample_labels
\* on an exception: the file is closed; delete=False keeps it on disk.
with_exit_raising(exception) ==
    /\ tmp_xml_file' = [exists |-> TRUE, open |-> FALSE]
    /\ raised' = exception
    /\ pc' = "done"
    /\ UNCHANGED << report_file, xml_writer, loop_vars, calls, last_call, input_vars >>

\* process_sample_labels, line 168: the temporary file is created.
named_temporary_file ==
    /\ pc = "NamedTemporaryFile"
    /\ tmp_xml_file' = [exists |-> TRUE, open |-> TRUE]
    /\ pc' = "summary_kpiset"
    /\ UNCHANGED << report_file, xml_writer, raised, loop_vars, calls, last_call,
                    input_vars >>

\* Line 168 when the file cannot be created (artifacts_dir is not writable).
named_temporary_file_fails ==
    /\ pc = "NamedTemporaryFile"
    /\ raised' = "OSError"
    /\ pc' = "done"
    /\ UNCHANGED << report_file, builder_vars, input_vars >>

\* Lines 170-172: kpiset[""] raises KeyError when the "" label is missing;
\* otherwise the writer is constructed and writes the header.
lookup_summary_kpiset ==
    /\ pc = "summary_kpiset"
    /\ IF HasKey(kpiset, <<>>)
       THEN /\ xml_writer' = JUnitXMLWriter
            /\ pc' = "add_testsuite"
            /\ UNCHANGED << report_file, tmp_xml_file, raised, loop_vars, calls,
                            last_call, input_vars >>
       ELSE with_exit_raising("KeyError")

\* write_summary_report, line 216.
summary_add_testsuite ==
    /\ pc = "add_testsuite"
    /\ writer_call("add_element", FALSE,
                   add_testsuite(xml_writer, FALSE,
                                 { <<"failures", IntToStr(summary_kpiset.fail)>>,
                                   <<"name", S_sample_labels>>,
                                   <<"skip", <<"0">> >>,
                                   <<"tests", IntToStr(summary_kpiset.throughput)>> }),
                   "add_summary_testcase")
    /\ UNCHANGED loop_vars

\* write_summary_report, line 221.
summary_add_testcase ==
    /\ pc = "add_summary_testcase"
    /\ writer_call("add_element", FALSE,
                   add_testcase(xml_writer, FALSE,
                                { <<"classname", S_bzt>>, <<"name", S_summary_report>> }),
                   "add_summary_error")
    /\ UNCHANGED loop_vars

\* write_summary_report, line 226.
summary_add_error ==
    /\ pc = "add_summary_error"
    /\ writer_call("add_element", FALSE,
                   add_error(xml_writer, FALSE,
                             { <<"message", S_error_statistics>>, <<"type", S_http_error>> }),
                   "summary_report")
    /\ UNCHANGED loop_vars

\* write_summary_report, lines 228-234; write_errors starts (lines 259-262).
summary_raw_write ==
    /\ pc = "summary_report"
    /\ writer_call("raw_write", FALSE,
                   raw_write(xml_writer, summary_report(summary_kpiset)),
                   "write_errors")
    /\ error_i' = 1
    /\ url_i' = 0
    /\ urls_err_string' = <<>>
    /\ UNCHANGED << key_i, er_i >>

\* write_errors, line 263: the line of the next error; then its urls, if any.
write_errors_error ==
    /\ pc = "write_errors"
    /\ error_i <= Len(summary_kpiset.errors)
    /\ LET error == summary_kpiset.errors[error_i]
       IN  /\ writer_call("raw_write", FALSE, raw_write(xml_writer, err_line(error)),
                          IF error.urls # <<>> THEN "write_errors_urls" ELSE "write_errors")
           /\ error_i' = IF error.urls # <<>> THEN error_i ELSE error_i + 1
           /\ url_i' = IF error.urls # <<>> THEN 1 ELSE 0
    /\ UNCHANGED << key_i, er_i, urls_err_string >>

\* A write_errors that writes each url's line once, by itself.
write_errors_url_line_only ==
    /\ pc = "write_errors_urls"
    /\ LET urls == summary_kpiset.errors[error_i].urls
           line == url_err_line(urls[url_i][1], urls[url_i][2])
           more == url_i < Len(urls)
       IN  /\ urls_err_string' = urls_err_string \o line
           /\ writer_call("raw_write", FALSE, raw_write(xml_writer, line),
                          IF more THEN "write_errors_urls" ELSE "write_errors")
           /\ url_i' = IF more THEN url_i + 1 ELSE 0
           /\ error_i' = IF more THEN error_i ELSE error_i + 1
    /\ UNCHANGED << key_i, er_i >>

\* write_errors, lines 264-266: the url's line is added to urls_err_string
\* and the whole of urls_err_string is written.
write_errors_url ==
    /\ pc = "write_errors_urls"
    /\ LET urls == summary_kpiset.errors[error_i].urls
           grown == urls_err_string \o url_err_line(urls[url_i][1], urls[url_i][2])
           more == url_i < Len(urls)
       IN  /\ urls_err_string' = grown
           /\ writer_call("raw_write", FALSE, raw_write(xml_writer, grown),
                          IF more THEN "write_errors_urls" ELSE "write_errors")
           /\ url_i' = IF more THEN url_i + 1 ELSE 0
           /\ error_i' = IF more THEN error_i ELSE error_i + 1
    /\ UNCHANGED << key_i, er_i >>

\* write_summary_report, line 237, once write_errors has returned.
summary_close_error ==
    /\ pc = "write_errors"
    /\ error_i > Len(summary_kpiset.errors)
    /\ writer_call("close_element", FALSE, close_element(xml_writer),
                   "close_summary_testcase")
    /\ UNCHANGED loop_vars

\* write_summary_report returning without its second close_element.
summary_close_testcase_missing ==
    /\ pc = "close_summary_testcase"
    /\ writer_call("raw_write", FALSE, xml_writer, "keys")
    /\ key_i' = 1
    /\ UNCHANGED << er_i, error_i, url_i, urls_err_string >>

\* write_summary_report, line 238; the loop of line 178 starts.
summary_close_testcase ==
    /\ pc = "close_summary_testcase"
    /\ writer_call("close_element", FALSE, close_element(xml_writer), "keys")
    /\ key_i' = 1
    /\ UNCHANGED << er_i, error_i, url_i, urls_err_string >>

\* Lines 178-179 for the blank label: nothing is written.
skip_blank_key ==
    /\ pc = "keys"
    /\ key_i <= Len(sorted_keys)
    /\ sorted_keys[key_i] = <<>>
    /\ key_i' = key_i + 1
    /\ UNCHANGED << report_file, tmp_xml_file, xml_writer, pc, raised, er_i, error_i,
                    url_i, urls_err_string, calls, last_call, input_vars >>

\* Lines 178-185 for a label that is not blank: its testcase is opened.
label_add_testcase ==
    /\ pc = "keys"
    /\ key_i <= Len(sorted_keys)
    /\ sorted_keys[key_i] # <<>>
    /\ LET key == sorted_keys[key_i]
           converted == convert_label_name(key)
           errors == Get(kpiset, key).errors
       IN  /\ writer_call("add_element", FALSE,
                          add_testcase(xml_writer, FALSE,
                                       { <<"classname", converted.class_name>>,
                                         <<"name", converted.resource_name>> }),
                          IF errors # <<>> THEN "add_error" ELSE "close_testcase")
           /\ er_i' = IF errors # <<>> THEN 1 ELSE 0
    /\ UNCHANGED << key_i, error_i, url_i, urls_err_string >>

\* Lines 186-191: the error element of er_dict is opened.
label_add_error ==
    /\ pc = "add_error"
    /\ LET er_dict == Get(kpiset, sorted_keys[key_i]).errors[er_i]
       IN  writer_call("add_element", FALSE,
                       add_error(xml_writer, FALSE,
                                 { <<"message", er_dict.rc>>, <<"type", er_dict.msg>> }),
                       "err_desc")
    /\ UNCHANGED loop_vars

\* Line 193.
label_raw_write ==
    /\ pc = "err_desc"
    /\ LET er_dict == Get(kpiset, sorted_keys[key_i]).errors[er_i]
       IN  writer_call("raw_write", FALSE, raw_write(xml_writer, err_desc(er_dict)),
                       "close_error")
    /\ UNCHANGED loop_vars

\* The loop of line 186 going on without closing the error element.
label_close_error_missing ==
    /\ pc = "close_error"
    /\ LET more == er_i < Len(Get(kpiset, sorted_keys[key_i]).errors)
       IN  /\ writer_call("close_element", FALSE, xml_writer,
                          IF more THEN "add_error" ELSE "close_testcase")
           /\ er_i' = IF more THEN er_i + 1 ELSE 0
    /\ UNCHANGED << key_i, error_i, url_i, urls_err_string >>

\* Line 194; the loop of line 186 goes on or ends.
label_close_error ==
    /\ pc = "close_error"
    /\ LET more == er_i < Len(Get(kpiset, sorted_keys[key_i]).errors)
       IN  /\ writer_call("close_element", FALSE, close_element(xml_writer),
                          IF more THEN "add_error" ELSE "close_testcase")
           /\ er_i' = IF more THEN er_i + 1 ELSE 0
    /\ UNCHANGED << key_i, error_i, url_i, urls_err_string >>

\* Line 198; the loop of line 178 goes on.
label_close_testcase ==
    /\ pc = "close_testcase"
    /\ writer_call("close_element", FALSE, close_element(xml_writer), "keys")
    /\ key_i' = key_i + 1
    /\ UNCHANGED << er_i, error_i, url_i, urls_err_string >>

\* Line 200, after the last key.
close_testsuite ==
    /\ pc = "keys"
    /\ key_i > Len(sorted_keys)
    /\ writer_call("close_element", FALSE, close_element(xml_writer), "with_exit")
    /\ UNCHANGED loop_vars

\* The builder returning with the temporary file still open.
with_exit_left_open ==
    /\ pc = "with_exit"
    /\ tmp_xml_file' = [exists |-> TRUE, open |-> TRUE]
    /\ pc' = "save_report"
    /\ UNCHANGED << report_file, xml_writer, raised, loop_vars, calls, last_call,
                    input_vars >>

\* The end of the `with` block: the temporary file is closed (line 201).
with_exit ==
    /\ pc = "with_exit"
    /\ tmp_xml_file' = [exists |-> TRUE, open |-> FALSE]
    /\ pc' = "save_report"
    /\ UNCHANGED << report_file, xml_writer, raised, loop_vars, calls, last_call,
                    input_vars >>

\* The statements at which the builder writes to the temporary file.
WritingPcs ==
    { "summary_kpiset", "add_testsuite", "add_summary_testcase", "add_summary_error",
      "summary_report", "write_errors", "write_errors_urls", "close_summary_testcase",
      "keys", "add_error", "err_desc", "close_error", "close_testcase" }

\* A failed write after which what was written so far is moved to the final path.
write_fails_publishing ==
    /\ pc \in WritingPcs
    /\ report_file' = [exists |-> TRUE, content |-> xml_writer.fds]
    /\ tmp_xml_file' = [exists |-> FALSE, open |-> FALSE]
    /\ raised' = "IOError"
    /\ pc' = "done"
    /\ UNCHANGED << xml_writer, loop_vars, calls, last_call, input_vars >>

\* fds.write raises (disk full, I/O error): the exception leaves the `with`
\* block and post_process.
write_fails ==
    /\ pc \in WritingPcs
    /\ with_exit_raising("IOError")

\* JUnitXMLReporter.save_report: os.rename(tmp_name, orig_name).
save_report ==
    /\ pc = "save_report"
    /\ report_file' = [exists |-> TRUE, content |-> xml_writer.fds]
    /\ tmp_xml_file' = [exists |-> FALSE, open |-> FALSE]
    /\ pc' = "done"
    /\ UNCHANGED << xml_writer, raised, loop_vars, calls, last_call, input_vars >>

\* os.rename raises (permission, missing parent directory).
save_report_fails ==
    /\ pc = "save_report"
    /\ raised' = "OSError"
    /\ pc' = "done"
    /\ UNCHANGED << report_file, builder_vars, input_vars >>

Next ==
    \/ \E data \in DataPoints : aggregated_second(data) /\ delivery(data)
    \/ \E source \in DataSources : post_process_skip(source)
    \/ post_process_sample_labels
    \/ \E engine_reporters \in ReporterLists : post_process_pass_fail(engine_reporters)
    \/ named_temporary_file
    \/ named_temporary_file_fails
    \/ lookup_summary_kpiset
    \/ summary_add_testsuite
    \/ summary_add_testcase
    \/ summary_add_error
    \/ summary_raw_write
    \/ write_errors_error
    \/ write_errors_url
    \/ summary_close_error
    \/ summary_close_testcase
    \/ skip_blank_key
    \/ label_add_testcase
    \/ label_add_error
    \/ label_raw_write
    \/ label_close_error
    \/ label_close_testcase
    \/ close_testsuite
    \/ with_exit
    \/ write_fails
    \/ save_report
    \/ save_report_fails

Spec == Init /\ [][Next]_vars

(* ---------------------------------------------------------------------- *)
(* The writer driven by an arbitrary caller                                *)
(* ---------------------------------------------------------------------- *)

ElementNames == {"testsuite", "testcase", "error"}

SomeText == << Segment("text", <<>>) >>

\* A JUnitXMLWriter constructed on an open file, before any call.
InitWriter ==
    /\ last_second = None
    /\ report_file = Absent
    /\ prior_file = Absent
    /\ tmp_xml_file = [exists |-> TRUE, open |-> TRUE]
    /\ xml_writer = JUnitXMLWriter
    /\ pc = "writer"
    /\ raised = "none"
    /\ test_data_source = "unread"
    /\ reporters = <<>>
    /\ root_xml_element = NoElement
    /\ key_i = 0
    /\ er_i = 0
    /\ error_i = 0
    /\ url_i = 0
    /\ urls_err_string = <<>>
    /\ calls = NoCalls
    /\ last_call = NoCall
    /\ last_sec = None
    /\ parameters = NoParameters
    /\ log = <<>>
    /\ delivered = None
    /\ overwrote = FALSE

\* A call of a writer method by the caller; every method returns normally.
caller_call(method, close, w) ==
    /\ pc = "writer"
    /\ calls.total < MaxOps
    /\ xml_writer' = w
    /\ calls' = Counted(method, close)
    /\ last_call' = Call(method)
    /\ UNCHANGED << report_file, tmp_xml_file, pc, raised, loop_vars, input_vars >>

call_add_element(element_name, text, close) ==
    caller_call("add_element", close, add_element(xml_writer, element_name, text, close, {}))

call_close_element == caller_call("close_element", FALSE, close_element(xml_writer))

call_raw_write(data) == caller_call("raw_write", FALSE, raw_write(xml_writer, data))

NextWriter ==
    \/ \E element_name \in ElementNames, text \in {<<>>, SomeText}, close \in BOOLEAN :
          call_add_element(element_name, text, close)
    \/ call_close_element
    \/ call_raw_write(SomeText)

SpecWriter == InitWriter /\ [][NextWriter]_vars

(* ---------------------------------------------------------------------- *)
(* FinalStatus                                                             *)
(* ---------------------------------------------------------------------- *)

\* The snapshots FinalStatus is given: those above and, besides, those whose
\* summary counts no sample at all (nothing was sampled yet).
NoSamples == [label |-> <<>>, kpi |-> KPISet(0, 0, <<>>)]

FinalStatusDataPoints ==
    DataPoints
    \cup { DataPoint(<< NoSamples >> \o c) :
             c \in { d \in Cumulatives(MaxLabels - 1) : ~HasKey(d, <<>>) } }

\* The options post_process reads: test-duration, summary, percentiles and
\* failed-labels.
ParameterSets ==
    [read : {TRUE}, test_duration : BOOLEAN, summary : BOOLEAN, percentiles : BOOLEAN,
     failed_labels : BOOLEAN]

\* Two decimal digits of n < 100.
TwoDigits(n) == <<Digits[(n \div 10) + 1], Digits[(n % 10) + 1]>>

\* "%.2f" % (num / float(den)) for den > 0: the quotient rounded to hundredths.
FormatHundredths(h) == IntToStr(h \div 100) \o <<".">> \o TwoDigits(h % 100)

FormatPercent(num, den) == FormatHundredths((200 * num + den) \div (2 * den))

\* FinalStatus.__report_duration (the times themselves are not modelled).
report_duration == << Segment("Test duration: %s", <<>>) >>

\* FinalStatus.__report_samples_count for a sample count that is not 0.
report_samples_count(summary_kpi_set) ==
    << Segment("Samples count: %s, %.2f%% failures",
               << IntToStr(summary_kpi_set.throughput),
                  FormatPercent(100 * summary_kpi_set.fail, summary_kpi_set.throughput) >>) >>

\* FinalStatus.__report_percentiles (the KPISets here hold no percentiles,
\* and the average times are not modelled).
report_percentiles ==
    << Segment("Average times: total %.3f, latency %.3f, connect %.3f", <<>>) >>

\* FinalStatus.__report_failed_labels over the labels left to visit.
RECURSIVE report_failed_labels_from(_, _)
report_failed_labels_from(cumulative, labels) ==
    IF labels = <<>> THEN <<>>
    ELSE (IF Head(labels) # <<>> /\ Get(cumulative, Head(labels)).fail # 0
          THEN << Segment("%d failed samples: %s",
                          << IntToStr(Get(cumulative, Head(labels)).fail), Head(labels) >>) >>
          ELSE <<>>)
         \o report_failed_labels_from(cumulative, Tail(labels))

report_failed_labels(cumulative) ==
    report_failed_labels_from(cumulative, Sorted(Keys(cumulative)))

\* How post_process ends: what it logged and the exception it let through.
Outcome(logged, exception) == [log |-> logged, raised |-> exception]

\* post_process, lines 70-71.
post_process_failed_labels(params, cumulative, logged) ==
    Outcome(logged \o (IF params.failed_labels THEN report_failed_labels(cumulative)
                       ELSE <<>>),
            "none")

\* post_process, lines 67-68.
post_process_percentiles(params, cumulative, logged) ==
    post_process_failed_labels(params, cumulative,
        logged \o (IF params.percentiles THEN report_percentiles ELSE <<>>))

\* post_process, lines 65-66: with the summary section on,
\* __report_samples_count divides by float(sample count) (line 77), which
\* raises ZeroDivisionError when the sample count is 0.
post_process_summary(params, cumulative, logged) ==
    IF params.summary /\ Get(cumulative, <<>>).throughput = 0
    THEN Outcome(logged, "ZeroDivisionError")
    ELSE post_process_percentiles(params, cumulative,
             logged \o (IF params.summary
                        THEN report_samples_count(Get(cumulative, <<>>)) ELSE <<>>))

\* post_process, lines 62-63.
post_process_last_sec(params, logged) ==
    IF ~last_sec.set THEN Outcome(logged, "none")
    ELSE IF ~HasKey(last_sec.cumulative, <<>>) THEN Outcome(logged, "KeyError")
    ELSE post_process_summary(params, last_sec.cumulative, logged)

\* post_process, lines 57-60 and on.
post_process_outcome(params) ==
    post_process_last_sec(params, IF params.test_duration THEN report_duration ELSE <<>>)

\* FinalStatus.aggregated_second
final_status_aggregated_second(data) ==
    /\ pc = "final_status"
    /\ last_sec' = data
    /\ UNCHANGED << last_second, report_file, prior_file, pc, raised, test_data_source,
                    reporters, root_xml_element, builder_vars, parameters, log,
                    history_vars >>

\* FinalStatus.post_process
final_status_post_process(params) ==
    /\ pc = "final_status"
    /\ parameters' = params
    /\ log' = log \o post_process_outcome(params).log
    /\ raised' = post_process_outcome(params).raised
    /\ pc' = "final_status_done"
    /\ UNCHANGED << last_second, report_file, prior_file, test_data_source, reporters,
                    root_xml_element, builder_vars, last_sec, history_vars >>

\* FinalStatus.__init__
InitFinalStatus ==
    /\ last_second = None
    /\ report_file = Absent
    /\ prior_file = Absent
    /\ tmp_xml_file = [exists |-> FALSE, open |-> FALSE]
    /\ xml_writer = [fds |-> <<>>, endings |-> <<>>]
    /\ pc = "final_status"
    /\ raised = "none"
    /\ test_data_source = "unread"
    /\ reporters = <<>>
    /\ root_xml_element = NoElement
    /\ key_i = 0
    /\ er_i = 0
    /\ error_i = 0
    /\ url_i = 0
    /\ urls_err_string = <<>>
    /\ calls = NoCalls
    /\ last_call = NoCall
    /\ last_sec = None
    /\ parameters = NoParameters
    /\ log = <<>>
    /\ delivered = None
    /\ overwrote = FALSE

NextFinalStatus ==
    \/ \E data \in FinalStatusDataPoints : final_status_aggregated_second(data)
    \/ \E params \in ParameterSets : final_status_post_process(params)

SpecFinalStatus == InitFinalStatus /\ [][NextFinalStatus]_vars

(* ---------------------------------------------------------------------- *)
(* Properties                                                              *)
(* ---------------------------------------------------------------------- *)

\* Reading a written document back: every open tag makes its close tag
\* pending, every close tag must be the newest pending one.  The result
\* tells whether all close tags matched, and what is still pending.
RECURSIVE Replay(_, _)
Replay(out, stack) ==
    IF out = <<>> THEN [ok |-> TRUE, stack |-> stack]
    ELSE IF Head(out).k = "open"
         THEN Replay(Tail(out), Append(stack, CloseTag(Head(out).name)))
    ELSE IF Head(out).k = "close"
         THEN IF stack # <<>> /\ stack[Len(stack)] = Head(out)
              THEN Replay(Tail(out), SubSeq(stack, 1, Len(stack) - 1))
              ELSE [ok |-> FALSE, stack |-> stack]
    ELSE Replay(Tail(out), stack)

TagsOf(out, k, name) == SelectSeq(out, LAMBDA t : t.k = k /\ t.name = name)

TagsOfKind(out, k) == SelectSeq(out, LAMBDA t : t.k = k)

AttrOf(t, key) == (CHOOSE a \in t.attrs : a[1] = key)[2]

NonBlankLabels == { kpiset[i].label : i \in {j \in 1..Len(kpiset) : kpiset[j].label # <<>>} }

\* The labels of a set in strictly ascending order.
RECURSIVE Ascending(_)
Ascending(labels) ==
    IF labels = {} THEN <<>>
    ELSE LET least == CHOOSE x \in labels : \A y \in labels \ {x} : StrLess(x, y)
         IN  <<least>> \o Ascending(labels \ {least})

\* process_sample_labels has returned normally.
LabelsCompleted ==
    /\ test_data_source = "sample-labels"
    /\ last_second.set
    /\ \/ pc \in {"with_exit", "save_report"}
       \/ pc = "done" /\ raised = "none"
       \/ pc = "done" /\ raised = "OSError" /\ tmp_xml_file.exists

\* A document with its header, its root testsuite and every element closed.
CompleteDocument(doc) ==
    /\ Len(doc) >= 3
    /\ doc[1] = Token("header", "xml", {}, <<>>)
    /\ doc[2].k = "open" /\ doc[2].name = "testsuite"
    /\ doc[Len(doc)] = CloseTag("testsuite")
    /\ Replay(doc, <<>>) = [ok |-> TRUE, stack |-> <<>>]

\* C1: whatever add_element, close_element and raw_write calls were made,
\* every close tag written so far closed the most recently opened element
\* that was still open, and the elements still open are exactly the pending
\* endings, newest last; so a balanced sequence closes in reverse of opening.
C1_CloseIsLifo ==
    Replay(xml_writer.fds, <<>>) = [ok |-> TRUE, stack |-> xml_writer.endings]

C1_Witness ==
    /\ pc = "writer"
    /\ calls.opened = 2
    /\ calls.closed = 2
    /\ xml_writer.endings = <<>>
    /\ TagsOfKind(xml_writer.fds, "open")
         = << OpenTag("testsuite", {}), OpenTag("testcase", {}) >>
    /\ TagsOfKind(xml_writer.fds, "close")
         = << CloseTag("testcase"), CloseTag("testsuite") >>

\* C2: a close_element call that finds no pending ending signals a
\* WriterStateError to its caller.
C2_EmptyCloseRaises ==
    (last_call.method = "close_element" /\ last_call.endings_before = 0)
        => raised = "WriterStateError"

\* C3: when process_sample_labels has returned normally, no ending is
\* pending, there were as many close_element calls as elements opened with
\* close=False, each of them wrote one close tag, and the document nests.
C3_AllClosed ==
    LabelsCompleted =>
        /\ xml_writer.endings = <<>>
        /\ calls.opened = calls.closed
        /\ Len(TagsOfKind(xml_writer.fds, "open")) = calls.opened
        /\ Len(TagsOfKind(xml_writer.fds, "close")) = calls.closed
        /\ Replay(xml_writer.fds, <<>>) = [ok |-> TRUE, stack |-> <<>>]

C3_Witness ==
    /\ LabelsCompleted
    /\ pc = "save_report"
    /\ Len(TagsOf(xml_writer.fds, "open", "testcase")) = 3
    /\ Len(TagsOf(xml_writer.fds, "open", "error")) >= 3
    /\ calls.closed >= 7

\* C4: with the sample-labels data source the final path holds what it held
\* before post_process, or, once post_process has finished without an
\* exception, the complete document; after any exception it holds what it
\* held before.
C4_AtomicPublish ==
    test_data_source \in {"unread", "sample-labels"} =>
        \/ report_file = prior_file
        \/ /\ pc = "done"
           /\ raised = "none"
           /\ report_file = [exists |-> TRUE, content |-> xml_writer.fds]
           /\ CompleteDocument(report_file.content)

C4_Witness ==
    /\ test_data_source = "sample-labels"
    /\ raised = "IOError"
    /\ tmp_xml_file.exists
    /\ Len(xml_writer.fds) >= 5
    /\ prior_file.exists
    /\ report_file = prior_file

\* C5: after a failure between the creation of the temporary file and the
\* rename, the temporary file no longer exists and the final path holds what
\* it held before.
C5_TempDiscarded ==
    (test_data_source = "sample-labels" /\ raised \in {"KeyError", "IOError"})
        => (~tmp_xml_file.exists /\ report_file = prior_file)

\* C6: when post_process has run without any snapshot delivered, no
\* temporary file was created, nothing was written, the final path holds
\* what it held before and no exception reached the caller.
C6_NoSnapshotNoReport ==
    (pc = "done" /\ ~last_second.set) =>
        /\ ~tmp_xml_file.exists
        /\ xml_writer.fds = <<>>
        /\ root_xml_element = NoElement
        /\ report_file = prior_file
        /\ raised = "none"

C6_Witness ==
    /\ pc = "done"
    /\ ~last_second.set
    /\ test_data_source = "pass-fail"
    /\ prior_file.exists

\* C7: when post_process has finished in pass-fail mode with a snapshot, no
\* exception reached the caller and the final path holds a newly written
\* document.
C7_PassFailPublished ==
    (pc = "done" /\ test_data_source = "pass-fail" /\ last_second.set) =>
        /\ raised = "none"
        /\ report_file.exists
        /\ report_file # prior_file

\* C8 as stated: the testcase elements whose classname is not "bzt" are as
\* many as the non-empty labels.
C8_NonBztCountIsLabelCount ==
    LabelsCompleted =>
        Len(SelectSeq(TagsOf(xml_writer.fds, "open", "testcase"),
                      LAMBDA t : AttrOf(t, "classname") # S_bzt))
          = Cardinality(NonBlankLabels)

\* C8 amended: the testcase elements whose classname is not "bzt" are as
\* many as the non-empty labels other than the label "bzt", and the testcase
\* elements after the summary testcase are as many as the non-empty labels.
C8_TestcaseCount ==
    LabelsCompleted =>
        /\ Len(SelectSeq(TagsOf(xml_writer.fds, "open", "testcase"),
                         LAMBDA t : AttrOf(t, "classname") # S_bzt))
             = Cardinality(NonBlankLabels \ {S_bzt})
        /\ Len(TagsOf(xml_writer.fds, "open", "testcase")) = 1 + Cardinality(NonBlankLabels)

C8_Witness ==
    /\ LabelsCompleted
    /\ pc = "done"
    /\ raised = "none"
    /\ S_bzt \in NonBlankLabels
    /\ S_url \in NonBlankLabels

\* C9: the first testcase of the document is the summary testcase, and the
\* testcases after it are those of the non-empty labels in ascending order
\* of the label, whatever order the snapshot holds its labels in.
C9_SortedTestcases ==
    LabelsCompleted =>
        LET testcases == TagsOf(xml_writer.fds, "open", "testcase")
            labels == Ascending(NonBlankLabels)
        IN  /\ Len(testcases) = 1 + Len(labels)
            /\ testcases[1] = OpenTag("testcase", { <<"classname", S_bzt>>,
                                                     <<"name", S_summary_report>> })
            /\ \A i \in 1..Len(labels) :
                  testcases[i + 1]
                    = OpenTag("testcase",
                              { <<"classname", convert_label_name(labels[i]).class_name>>,
                                <<"name", convert_label_name(labels[i]).resource_name>> })

C9_Witness ==
    /\ LabelsCompleted
    /\ pc = "done"
    /\ raised = "none"
    /\ Keys(kpiset) = <<S_b, <<>>, S_a>>

\* The criteria of every pass/fail reporter, in reporter order.
RECURSIVE AllCriteria(_)
AllCriteria(reps) ==
    IF reps = <<>> THEN <<>>
    ELSE IF Head(reps).class = "PassFailStatus"
         THEN Head(reps).criterias \o AllCriteria(Tail(reps))
         ELSE AllCriteria(Tail(reps))

\* C10: the root testsuite built in pass-fail mode has tests = the number of
\* criteria and failures = the number of criteria both triggered and set to
\* fail; it has one testcase per criterion, a testcase has one error child
\* exactly when its criterion is both triggered and set to fail, and so the
\* error children are as many as the failures attribute says.
C10_PassFailCounts ==
    (pc = "done" /\ test_data_source = "pass-fail" /\ last_second.set) =>
        LET criteria == AllCriteria(reporters)
            failed == {i \in 1..Len(criteria) : criteria[i].is_triggered /\ criteria[i].fail}
            testcases == root_xml_element.children
        IN  /\ root_xml_element.tag = "testsuite"
            /\ AttrOf(root_xml_element, "tests") = IntToStr(Len(criteria))
            /\ AttrOf(root_xml_element, "failures") = IntToStr(Cardinality(failed))
            /\ Len(testcases) = Len(criteria)
            /\ \A i \in 1..Len(testcases) :
                  /\ testcases[i].tag = "testcase"
                  /\ Len(testcases[i].children) = (IF i \in failed THEN 1 ELSE 0)
                  /\ \A j \in 1..Len(testcases[i].children) :
                        testcases[i].children[j].tag = "error"
            /\ AttrOf(root_xml_element, "failures")
                 = IntToStr(Cardinality({i \in 1..Len(testcases) : testcases[i].children # <<>>}))

C10_Witness ==
    /\ pc = "done"
    /\ test_data_source = "pass-fail"
    /\ last_second.set
    /\ Len(root_xml_element.children) = 2
    /\ AttrOf(root_xml_element, "failures") = <<"1">>
    /\ root_xml_element.children[2].children # <<>>

\* C11: when FinalStatus.post_process has run with the summary section on
\* and a snapshot whose summary has sample count 0, no exception reached the
\* caller and the samples line was logged.
C11_ZeroSamplesCompletes ==
    (/\ pc = "final_status_done"
     /\ parameters.summary
     /\ last_sec.set
     /\ HasKey(last_sec.cumulative, <<>>)
     /\ Get(last_sec.cumulative, <<>>).throughput = 0)
        => /\ raised = "none"
           /\ \E i \in 1..Len(log) : log[i].tpl = "Samples count: %s, %.2f%% failures"

\* C12: when os.rename of the temporary file to the final path has failed
\* (the temporary file is still there and post_process ended with OSError),
\* the exception reached the caller of post_process and the failure was
\* reported to the log.
C12_RenameFailureLoggedAndRaised ==
    (pc = "done" /\ raised = "OSError" /\ tmp_xml_file.exists)
        => /\ raised # "none"
           /\ log # <<>>

\* The positions <<i, j>> of the j-th url of the i-th error entry.
UrlPositions(errors) ==
    UNION { { <<i, j>> : j \in 1..Len(errors[i].urls) } : i \in 1..Len(errors) }

\* The sum of the per-url failure counts at the given positions.
RECURSIVE UrlFailures(_, _)
UrlFailures(errors, positions) ==
    IF positions = {} THEN 0
    ELSE LET p == CHOOSE q \in positions : TRUE
         IN  errors[p[1]].urls[p[2]][2] + UrlFailures(errors, positions \ {p})

\* C13: in the finished label document the first text is the summary line
\* with S, N, F of the "" label and E the sum of all per-url failure counts
\* of the "" label's error entries, and the testsuite's tests and failures
\* attributes are the "" label's sample count and failure count.
C13_SummaryLine ==
    LabelsCompleted =>
        /\ TagsOfKind(xml_writer.fds, "text")[1]
             = Text(<< Segment("Success: {}, Sample count: {}, Failures: {}, Errors: {}\n",
                               << IntToStr(Get(kpiset, <<>>).succ),
                                  IntToStr(Get(kpiset, <<>>).throughput),
                                  IntToStr(Get(kpiset, <<>>).fail),
                                  IntToStr(UrlFailures(Get(kpiset, <<>>).errors,
                                               UrlPositions(Get(kpiset, <<>>).errors))) >>) >>)
        /\ xml_writer.fds[2].name = "testsuite"
        /\ AttrOf(xml_writer.fds[2], "tests") = IntToStr(Get(kpiset, <<>>).throughput)
        /\ AttrOf(xml_writer.fds[2], "failures") = IntToStr(Get(kpiset, <<>>).fail)

C13_Witness ==
    /\ LabelsCompleted
    /\ pc = "done"
    /\ raised = "none"
    /\ Len(Get(kpiset, <<>>).errors) = 2
    /\ UrlFailures(Get(kpiset, <<>>).errors, UrlPositions(Get(kpiset, <<>>).errors)) = 4
    /\ TagsOfKind(report_file.content, "text")[1].text[1].args[4] = <<"4">>

\* The url lines of one error entry, one segment per url, in the given order.
RECURSIVE UrlLines(_)
UrlLines(urls) ==
    IF urls = <<>> THEN <<>>
    ELSE << Segment("URL: {}, Error count {}\n",
                    << Head(urls)[1], IntToStr(Head(urls)[2]) >>) >>
         \o UrlLines(Tail(urls))

\* The url lines of all error entries, in entry order.
RECURSIVE AllUrlLines(_)
AllUrlLines(errors) ==
    IF errors = <<>> THEN <<>>
    ELSE UrlLines(Head(errors).urls) \o AllUrlLines(Tail(errors))

\* What the summary error body holds after the summary line, from the i-th
\* error entry on: the entry's line, then for each of its urls every url
\* line up to and including that url's.
RECURSIVE ErrorTexts(_, _)
ErrorTexts(errors, i) ==
    IF i > Len(errors) THEN <<>>
    ELSE << Text(<< Segment("Error code: {}, Message: {}, count: {}\n",
                            << errors[i].rc, errors[i].msg, IntToStr(errors[i].cnt) >>) >>) >>
         \o [ j \in 1..Len(errors[i].urls) |->
                Text(SubSeq(AllUrlLines(errors), 1,
                            Len(AllUrlLines(SubSeq(errors, 1, i - 1))) + j)) ]
         \o ErrorTexts(errors, i + 1)

\* The error elements of a label's testcase.
RECURSIVE ErrorElements(_)
ErrorElements(errors) ==
    IF errors = <<>> THEN <<>>
    ELSE << OpenTag("error", { <<"message", Head(errors).rc>>, <<"type", Head(errors).msg>> }),
            Text(<< Segment("total errors of this type:{}", << IntToStr(Head(errors).cnt) >>) >>),
            CloseTag("error") >>
         \o ErrorElements(Tail(errors))

\* The testcases of the given labels.
RECURSIVE LabelBlocks(_, _)
LabelBlocks(cumulative, labels) ==
    IF labels = <<>> THEN <<>>
    ELSE << OpenTag("testcase",
                    { <<"classname", convert_label_name(Head(labels)).class_name>>,
                      <<"name", convert_label_name(Head(labels)).resource_name>> }) >>
         \o ErrorElements(Get(cumulative, Head(labels)).errors)
         \o << CloseTag("testcase") >>
         \o LabelBlocks(cumulative, Tail(labels))

\* The summary part of the label document, up to the close of its testcase.
SummaryBlock(summary) ==
    << Token("header", "xml", {}, <<>>),
       OpenTag("testsuite", { <<"failures", IntToStr(summary.fail)>>,
                              <<"name", S_sample_labels>>,
                              <<"skip", <<"0">> >>,
                              <<"tests", IntToStr(summary.throughput)>> }),
       OpenTag("testcase", { <<"classname", S_bzt>>, <<"name", S_summary_report>> }),
       OpenTag("error", { <<"message", S_error_statistics>>, <<"type", S_http_error>> }),
       Text(summary_report(summary)) >>
    \o ErrorTexts(summary.errors, 1)
    \o << CloseTag("error"), CloseTag("testcase") >>

\* The label document of a cumulative mapping.
DocumentOf(cumulative) ==
    SummaryBlock(Get(cumulative, <<>>))
    \o LabelBlocks(cumulative,
                   Ascending({ cumulative[i].label : i \in 1..Len(cumulative) } \ {<<>>}))
    \o << CloseTag("testsuite") >>

\* C14: the reporter holds the last snapshot it was given, and the label
\* document it builds and publishes is the document of that last snapshot,
\* whatever snapshots were given before.
C14_LastSnapshotOnly ==
    /\ last_second = delivered
    /\ LabelsCompleted => xml_writer.fds = DocumentOf(delivered.cumulative)
    /\ (LabelsCompleted /\ pc = "done" /\ raised = "none")
          => report_file.content = DocumentOf(delivered.cumulative)

C14_Witness ==
    /\ overwrote
    /\ LabelsCompleted
    /\ pc = "done"
    /\ raised = "none"
    /\ report_file.content = DocumentOf(delivered.cumulative)
    /\ Len(delivered.cumulative) = 2

\* C15: in pass-fail mode the testcases under the root are one per criterion
\* of the registered evaluators; the k-th criterion of an evaluator has its
\* testcase at position (number of criteria of the evaluators registered
\* before it) + k, so evaluator order and then within-evaluator order are
\* kept, and an evaluator with no criteria takes no position.
C15_FlattenedOrder ==
    (pc = "done" /\ test_data_source = "pass-fail" /\ last_second.set) =>
        /\ Len(root_xml_element.children) = Len(AllCriteria(reporters))
        /\ \A e \in 1..Len(reporters) :
              reporters[e].class = "PassFailStatus" =>
                 \A k \in 1..Len(reporters[e].criterias) :
                    /\ AttrOf(root_xml_element.children[
                                  Len(AllCriteria(SubSeq(reporters, 1, e - 1))) + k],
                              "classname")
                         = criterion_classname(reporters[e].criterias[k])
                    /\ (root_xml_element.children[
                            Len(AllCriteria(SubSeq(reporters, 1, e - 1))) + k].children # <<>>)
                         <=> (reporters[e].criterias[k].is_triggered
                              /\ reporters[e].criterias[k].fail)

C15_Witness ==
    /\ pc = "done"
    /\ test_data_source = "pass-fail"
    /\ last_second.set
    /\ Len(reporters[1].criterias) = 1
    /\ Len(reporters[3].criterias) = 1
    /\ reporters[1].criterias # reporters[3].criterias
    /\ Len(root_xml_element.children) = 2
    /\ AttrOf(root_xml_element.children[1], "classname")
         # AttrOf(root_xml_element.children[2], "classname")

\* What a call appended to the file.
Appended == SubSeq(xml_writer.fds', Len(xml_writer.fds) + 1, Len(xml_writer.fds'))

\* The open tag and the optional text an add_element call appended first.
OpenedWith(name, text) ==
    << OpenTag(name, {}) >> \o (IF text # <<>> THEN << Text(text) >> ELSE <<>>)

\* C16: a step that is an add_element call with close=True appends the open
\* tag, the optional text and the matching close tag and leaves the pending
\* endings as they were; with close=False it appends the open tag and the
\* optional text, no close tag, and puts exactly the close tag of that
\* element on top of the pending endings, the earlier ones unchanged; a
\* raw_write call appends its text and leaves the pending endings as they were.
C16_FrameEffect ==
    [][ (pc = "writer" /\ calls'.total = calls.total + 1) =>
          /\ SubSeq(xml_writer.fds', 1, Len(xml_writer.fds)) = xml_writer.fds
          /\ (last_call'.method = "add_element" /\ calls'.opened = calls.opened) =>
                /\ xml_writer.endings' = xml_writer.endings
                /\ \E name \in ElementNames, text \in {<<>>, SomeText} :
                      Appended = OpenedWith(name, text) \o << CloseTag(name) >>
          /\ (last_call'.method = "add_element" /\ calls'.opened = calls.opened + 1) =>
                \E name \in ElementNames, text \in {<<>>, SomeText} :
                   /\ Appended = OpenedWith(name, text)
                   /\ xml_writer.endings' = Append(xml_writer.endings, CloseTag(name))
          /\ last_call'.method = "raw_write" =>
                /\ xml_writer.endings' = xml_writer.endings
                /\ Appended = << Text(SomeText) >>
      ]_vars

\* An add_element call with close=True and text was made while two elements
\* were open, after a raw_write.
C16_Witness ==
    /\ pc = "writer"
    /\ last_call.method = "add_element"
    /\ calls.opened = 2
    /\ calls.total = 4
    /\ xml_writer.endings = << CloseTag("testsuite"), CloseTag("testcase") >>
    /\ last_call.endings_before = 2
    /\ xml_writer.fds[Len(xml_writer.fds)] = CloseTag("error")
    /\ xml_writer.fds[Len(xml_writer.fds) - 1] = Text(SomeText)
    /\ xml_writer.fds[Len(xml_writer.fds) - 3] = Text(SomeText)

\* Every element of `out` is opened directly under the element it belongs
\* to (a testsuite under nothing, a testcase under the testsuite, an error
\* under a testcase of the testsuite), and every close tag closes the
\* innermost open element.
RECURSIVE ProperlyNested(_, _)
ProperlyNested(out, stack) ==
    IF out = <<>> THEN TRUE
    ELSE IF Head(out).k = "open"
         THEN /\ stack = (CASE Head(out).name = "testsuite" -> <<>>
                            [] Head(out).name = "testcase" -> << CloseTag("testsuite") >>
                            [] OTHER -> << CloseTag("testsuite"), CloseTag("testcase") >>)
              /\ ProperlyNested(Tail(out), Append(stack, CloseTag(Head(out).name)))
    ELSE IF Head(out).k = "close"
         THEN /\ stack # <<>>
              /\ stack[Len(stack)] = Head(out)
              /\ ProperlyNested(Tail(out), SubSeq(stack, 1, Len(stack) - 1))
    ELSE ProperlyNested(Tail(out), stack)

\* C17: at every point of building the label document the elements are
\* properly nested (an error is opened only under an open testcase with no
\* other error open, a testcase only under the testsuite with no other
\* testcase open, and a close tag closes the innermost open element); and in
\* the finished document what follows the summary testcase is, for every
\* non-empty label in turn, its testcase with one error element per error
\* entry of the label, in entry order, each opened, given its
\* "total errors of this type:<count>" text and closed, then the close of
\* the testcase, and last the close of the testsuite.
C17_LabelSections ==
    /\ (test_data_source = "sample-labels" /\ last_second.set)
          => ProperlyNested(xml_writer.fds, <<>>)
    /\ LabelsCompleted =>
          SubSeq(xml_writer.fds, Len(SummaryBlock(Get(kpiset, <<>>))) + 1, Len(xml_writer.fds))
            = LabelBlocks(kpiset, Ascending(NonBlankLabels)) \o << CloseTag("testsuite") >>

C17_Witness ==
    /\ LabelsCompleted
    /\ pc = "done"
    /\ raised = "none"
    /\ NonBlankLabels = {S_b, S_bzt}
    /\ Len(Get(kpiset, S_bzt).errors) = 2
    /\ Len(TagsOf(report_file.content, "open", "error")) = 4
    /\ Len(TagsOf(report_file.content, "close", "error")) = 4

\* The writes of url lines found in `out`, in the order they were made.
UrlWrites(out) ==
    SelectSeq(out, LAMBDA t : /\ t.k = "text"
                              /\ t.text # <<>>
                              /\ t.text[1].tpl = "URL: {}, Error count {}\n")

RECURSIVE LinesWritten(_)
LinesWritten(writes) ==
    IF writes = <<>> THEN 0 ELSE Len(Head(writes).text) + LinesWritten(Tail(writes))

\* C18: while and after the label document is built, the k-th write of url
\* lines is the first k url lines of the "" label (error entries in their
\* order, each entry's urls in their order); so each such write is a prefix
\* of every later one, and the finished document of n urls has n such
\* writes holding n(n+1)/2 url lines.
C18_UrlLinesAccumulate ==
    (test_data_source = "sample-labels" /\ last_second.set /\ HasKey(kpiset, <<>>)) =>
        /\ \A k \in 1..Len(UrlWrites(xml_writer.fds)) :
              UrlWrites(xml_writer.fds)[k].text
                = SubSeq(AllUrlLines(Get(kpiset, <<>>).errors), 1, k)
        /\ \A k \in 1..Len(UrlWrites(xml_writer.fds)) : \A m \in 1..k :
              UrlWrites(xml_writer.fds)[m].text
                = SubSeq(UrlWrites(xml_writer.fds)[k].text, 1, m)
        /\ LabelsCompleted =>
              /\ Len(UrlWrites(xml_writer.fds)) = Len(AllUrlLines(Get(kpiset, <<>>).errors))
              /\ 2 * LinesWritten(UrlWrites(xml_writer.fds))
                   = Len(AllUrlLines(Get(kpiset, <<>>).errors))
                       * (Len(AllUrlLines(Get(kpiset, <<>>).errors)) + 1)

\* Three urls over two error entries: six url lines in the published report.
C18_Witness ==
    /\ LabelsCompleted
    /\ pc = "done"
    /\ raised = "none"
    /\ Len(Get(kpiset, <<>>).errors) = 2
    /\ Len(UrlWrites(report_file.content)) = 3
    /\ LinesWritten(UrlWrites(report_file.content)) = 6
    /\ Len(UrlWrites(report_file.content)[3].text) = 3

\* C19: in label mode a step that changes the final path is the rename made
\* after the builder has returned: the last writer call was the
\* close_element that took the last pending ending (the testsuite's) off the
\* stack, the document is complete, the temporary file has been closed, and
\* what appears at the final path is that document; and a step that writes
\* to the document happens while the temporary file is open and the final
\* path still holds what it held before post_process, never after the rename.
C19_RenameAfterCompletion ==
    [][ /\ report_file' # report_file =>
              /\ pc = "save_report"
              /\ test_data_source = "sample-labels"
              /\ last_call.method = "close_element"
              /\ last_call.endings_before = 1
              /\ xml_writer.endings = <<>>
              /\ xml_writer.fds[Len(xml_writer.fds)] = CloseTag("testsuite")
              /\ CompleteDocument(xml_writer.fds)
              /\ tmp_xml_file.exists /\ ~tmp_xml_file.open
              /\ report_file' = [exists |-> TRUE, content |-> xml_writer.fds]
              /\ xml_writer' = xml_writer
        /\ xml_writer' # xml_writer =>
              /\ report_file = prior_file
              /\ report_file' = prior_file
              /\ tmp_xml_file.open
              /\ pc' \notin {"save_report", "done"}
      ]_vars

C19_Witness ==
    /\ test_data_source = "sample-labels"
    /\ pc = "done"
    /\ raised = "none"
    /\ prior_file.exists
    /\ report_file # prior_file
    /\ report_file.content = xml_writer.fds
    /\ last_call.method = "close_element"
    /\ last_call.endings_before = 1
    /\ ~tmp_xml_file.exists
    /\ calls.closed = 5

\* C20: once post_process has read a data-source option that is neither
\* "sample-labels" nor "pass-fail" while a snapshot is there, it is finished:
\* no exception, no temporary file, no writer call, no element tree, and the
\* final path holds what it held before; and in no post_process call have
\* both builders run: only the sample-labels source has a temporary file or
\* writer output, only the pass-fail source has an element tree.
C20_UnknownSourceDoesNothing ==
    /\ (last_second.set /\ test_data_source \notin {"unread", "sample-labels", "pass-fail"}) =>
          /\ pc = "done"
          /\ raised = "none"
          /\ ~tmp_xml_file.exists
          /\ report_file = prior_file
          /\ xml_writer = [fds |-> <<>>, endings |-> <<>>]
          /\ calls = NoCalls
          /\ root_xml_element = NoElement
    /\ (tmp_xml_file.exists \/ xml_writer.fds # <<>> \/ calls # NoCalls)
          => (test_data_source = "sample-labels" /\ root_xml_element = NoElement)
    /\ root_xml_element # NoElement
          => (test_data_source = "pass-fail" /\ ~tmp_xml_file.exists /\ xml_writer.fds = <<>>)

C20_Witness ==
    /\ pc = "done"
    /\ last_second.set
    /\ HasKey(kpiset, <<>>)
    /\ test_data_source = "other"
    /\ raised = "none"
    /\ prior_file.exists
    /\ report_file = prior_file
    /\ ~tmp_xml_file.exists

====
